---- MODULE Spec2Model ----
(***************************************************************************)
(* Model of pkg/runtime/runtime.go: PorterRuntime.Execute, executeStep,    *)
(* applyStepOutputsToBundle, applyUnboundBundleOutputs, shouldApplyOutput, *)
(* readMixinOutputs and getImageMappingFiles.                              *)
(*                                                                         *)
(* One action per stage of Execute/executeStep.  Collaborators that can    *)
(* fail (manifest, mixin invoker, filesystem) fail nondeterministically.   *)
(* An error is a sequence of strings: the wrap labels, outermost first,    *)
(* then the cause.  The nil error is the empty sequence.                   *)
(***************************************************************************)
EXTENDS Integers, Sequences, FiniteSets, TLC

\* Longest step list explored.
MaxSteps == 2

Actions == {"install", "upgrade"}
Names == {"a", "b"}
Vals == {"", "v"}

\* The values a mixin writes under a name: the empty value only under "a".
ValsOf(name) == IF name = "a" THEN Vals ELSE {"v"}

\* ReadDir lists the channel sorted by file name.
ChannelOrder == <<"a", "b">>

NoErr == <<>>

\* Mutant of Wrap: the cause is passed on without a label.
WrapDropped(label, err) == err

\* errors.Wrap(err, label): the label, then what it wraps.
Wrap(label, err) == <<label>> \o err

PathOf(name) == IF name = "a" THEN "/src/a" ELSE "/src/b"

\* Bytes of the bundle file at a path (what CopyFile copies).
FileAt(path) == IF path = "/src/a" THEN "bytesA" ELSE "bytesB"

NilStep == [nil |-> TRUE, mixin |-> "", description |-> "", sensitive |-> {}]

StepKinds ==
  { NilStep,
    [nil |-> FALSE, mixin |-> "exec", description |-> "", sensitive |-> {}],
    [nil |-> FALSE, mixin |-> "helm", description |-> "Install MySQL",
     sensitive |-> {"pw"}] }

StepLists == UNION { [1..n -> StepKinds] : n \in 0..MaxSteps }

\* manifest.OutputDefinition: Name, Path, ApplyTo.
OutputDefinition(name, path, applyTo) ==
  [Name |-> name, Path |-> path, ApplyTo |-> applyTo]

\* The declared paths explored: "b", when declared, always has a path.
PathsOf(name) == IF name = "a" THEN {"", PathOf(name)} ELSE {PathOf(name)}

DefsOf(name) ==
  { OutputDefinition(name, p, t) : p \in PathsOf(name),
                                   t \in {<<>>, <<"install">>} }

\* RuntimeManifest.Outputs: declared name -> definition, names unique.
OutputSets ==
  UNION { { f \in [D -> UNION { DefsOf(n) : n \in D }] :
              \A n \in D : f[n].Name = n } : D \in SUBSET Names }

\* The channel directory as Execute finds it: empty, or left over from an
\* earlier run with a file and a subdirectory in it.
InitChannels ==
  { [files |-> <<>>, dirs |-> {}],
    [files |-> ("a" :> "v"), dirs |-> {"sub"}] }

VARIABLES
  action,        \* RuntimeManifest.Action
  steps,         \* RuntimeManifest.GetSteps()
  Outputs,       \* RuntimeManifest.Outputs
  rmOutputs,     \* RuntimeManifest.GetOutputs(): step outputs recorded so far
  sensitive,     \* RuntimeManifest.GetSensitiveValues()
  mask,          \* Context sensitive values used to mask Out/Err
  channel,       \* regular files of context.MixinOutputsDir: name -> contents
  channelDirs,   \* subdirectories of context.MixinOutputsDir
  store,         \* files of config.BundleOutputsDir: name -> contents
  storeDir,      \* config.BundleOutputsDir exists
  reloFile,      \* what getImageMappingFiles met at the relocation path, kept
                 \* while its results rtb, reloMap (L56) are in use (to L61)
  passed,        \* history: the stages before the loop that succeeded, in order
  pc,            \* position in Execute / executeStep
  idx,           \* index of the step the loop is at
  outputs,       \* executeStep's local outputs map
  executionErr,  \* Execute's local executionErr
  result,        \* what Execute returned (meaningful when pc = "done")
  mixinCalls,    \* history: calls of mixins.Run
  inMixin,       \* step indexes whose mixins.Run has not returned
  log,           \* history: writes to r.Out / r.Err
  passes,        \* history: record of each applyUnboundBundleOutputs call
  bound,         \* history: name -> last value the binder wrote to the store
  failedAt,      \* history: the stage whose failure ended the run, or ""
  stepErrs       \* history: the error each executeStep call returned

vars == <<action, steps, Outputs, rmOutputs, sensitive, mask, channel,
          channelDirs, store, storeDir, reloFile, passed, pc, idx, outputs,
          executionErr, result, mixinCalls, inMixin, log, passes, bound, failedAt,
          stepErrs>>

manifestVars == <<action, steps, Outputs>>
\* What only the stages before the loop can change.
fixedVars == <<manifestVars, reloFile, passed>>
histVars == <<mixinCalls, inMixin, log, passes, bound, failedAt, stepErrs>>

Init ==
  /\ action \in Actions
  /\ steps \in StepLists
  /\ Outputs \in OutputSets
  /\ rmOutputs = <<>>
  /\ sensitive = {}
  /\ mask = {}
  /\ \E c \in InitChannels : channel = c.files /\ channelDirs = c.dirs
  /\ store = <<>>
  /\ storeDir = FALSE
  /\ reloFile = ""
  /\ passed = <<>>
  /\ pc = "validate"
  /\ idx = 1
  /\ outputs = <<>>
  /\ executionErr = NoErr
  /\ result = NoErr
  /\ mixinCalls = <<>>
  /\ inMixin = {}
  /\ log = <<>>
  /\ passes = <<>>
  /\ bound = <<>>
  /\ failedAt = ""
  /\ stepErrs = <<>>

\* A write to r.Out or r.Err, with the mask in force when it is made.
LogEntry(stream, what, step) ==
  [stream |-> stream, what |-> what, step |-> step, mask |-> mask,
   sensitive |-> sensitive]

\* The stages before the step loop (Execute, L42-L69).
PreStages == {"validate", "prepare", "images", "resolveImages", "mkdir"}

\* Mutant of Return: the error is noted but Execute goes on to the steps.
ReturnAndGoOn(err) ==
  /\ pc' = "loop"
  /\ result' = err
  /\ failedAt' = pc
  /\ UNCHANGED passed

\* An early `return err` of Execute (L44, L52, L58, L63, L68).
Return(err) ==
  /\ pc' = "done"
  /\ result' = err
  /\ failedAt' = pc
  /\ UNCHANGED passed

\* A stage of Execute before the loop succeeded.
Proceed(next) ==
  /\ pc' = next
  /\ passed' = Append(passed, pc)
  /\ UNCHANGED <<result, failedAt>>

----
\* Execute, L36-L45: banner, then RuntimeManifest.Validate().
Validate ==
  /\ pc = "validate"
  /\ log' = Append(log, LogEntry("out", "banner", 0))
  /\ \/ Proceed("prepare")
     \/ Return(<<"Validate">>)
  /\ UNCHANGED <<manifestVars, reloFile, rmOutputs, sensitive, mask, channel,
                 channelDirs, store, storeDir, idx, outputs, executionErr,
                 mixinCalls, inMixin, passes, bound, stepErrs>>

\* Execute, L50-L53: RuntimeManifest.Prepare().
Prepare ==
  /\ pc = "prepare"
  /\ \/ Proceed("images")
     \/ Return(<<"Prepare">>)
  /\ UNCHANGED <<manifestVars, reloFile, rmOutputs, sensitive, mask, channel,
                 channelDirs, store, storeDir, idx, outputs, executionErr,
                 mixinCalls, inMixin, log, passes, bound, stepErrs>>

\* getImageMappingFiles, L252-L274.  bundle: "ok" | "unreadable" | "invalid";
\* relo: "ok" | "absent" | "statfails" | "unreadable" | "invalid".
\* Any Stat error skips the relocation file (L263 tests err == nil only).
getImageMappingFiles(bundle, relo) ==
  IF bundle = "unreadable"
    THEN Wrap("couldn't read runtime bundle.json", <<"ReadFile">>)
  ELSE IF bundle = "invalid"
    THEN Wrap("couldn't load runtime bundle.json", <<"LoadData">>)
  ELSE IF relo \in {"absent", "statfails"} THEN NoErr
  ELSE IF relo = "unreadable"
    THEN Wrap("couldn't read relocation file", <<"ReadFile">>)
  ELSE IF relo = "invalid"
    THEN Wrap("couldn't load relocation file", <<"Unmarshal">>)
  ELSE NoErr

\* getImageMappingFiles, L262-L273: the relocation map returned without error.
reloMapOf(relo) == IF relo = "ok" THEN "loaded" ELSE "empty"

\* Execute, L56-L59.  The relocation path is only looked at once bundle.json
\* is loaded (L263).
LoadImageMappingFiles ==
  /\ pc = "images"
  /\ \E bundle \in {"ok", "unreadable", "invalid"},
        relo \in {"ok", "absent", "statfails", "unreadable", "invalid"} :
       LET err == getImageMappingFiles(bundle, relo) IN
         /\ reloFile' = IF bundle = "ok" THEN relo ELSE ""
         /\ IF err # NoErr THEN Return(err)
            ELSE Proceed("resolveImages")
  /\ UNCHANGED <<manifestVars, rmOutputs, sensitive, mask, channel,
                 channelDirs, store, storeDir, idx, outputs, executionErr,
                 mixinCalls, inMixin, log, passes, bound, stepErrs>>

\* Execute, L61-L64: RuntimeManifest.ResolveImages(rtb, reloMap).
ResolveImages ==
  /\ pc = "resolveImages"
  /\ \/ Proceed("mkdir")
     \/ Return(Wrap("unable to resolve bundle images", <<"ResolveImages">>))
  /\ reloFile' = ""
  /\ UNCHANGED <<manifestVars, rmOutputs, sensitive, mask, channel,
                 channelDirs, store, storeDir, idx, outputs, executionErr,
                 mixinCalls, inMixin, log, passes, bound, stepErrs>>

\* Execute, L66-L69: MkdirAll(context.MixinOutputsDir); an existing directory
\* is kept with whatever it holds.
MkdirMixinOutputsDir ==
  /\ pc = "mkdir"
  /\ \/ Proceed("loop")
     \/ Return(Wrap("could not create outputs directory", <<"MkdirAll">>))
  /\ UNCHANGED <<manifestVars, reloFile, rmOutputs, sensitive, mask, channel,
                 channelDirs, store, storeDir, idx, outputs, executionErr,
                 mixinCalls, inMixin, log, passes, bound, stepErrs>>

----
\* Mutant of LoopBreaks: the `break` of L75 is missing.
LoopBreaksNever(err) == FALSE

\* Execute, L72-L77: the loop stops at the first step whose error is not nil.
LoopBreaks(err) == err # NoErr

\* Mutant of StepReturns: a step that fails is run once more before the loop
\* gives up.
StepReturnsRetrying(err) ==
  /\ executionErr' = err
  /\ stepErrs' = Append(stepErrs, err)
  /\ failedAt' = IF err = NoErr THEN failedAt
                 ELSE IF pc = "loop" THEN "resolve" ELSE pc
  /\ IF err # NoErr /\ failedAt = ""
       THEN pc' = "loop" /\ UNCHANGED idx
       ELSE IF err # NoErr
         THEN pc' = "unbound" /\ UNCHANGED idx
         ELSE pc' = "loop" /\ idx' = idx + 1

\* Mutant of StepReturns: a failed step leaves Execute from inside the loop
\* (`return` for `break`), skipping what follows the loop.
StepReturnsEarly(err) ==
  /\ executionErr' = err
  /\ stepErrs' = Append(stepErrs, err)
  /\ failedAt' = IF err = NoErr THEN failedAt
                 ELSE IF pc = "loop" THEN "resolve" ELSE pc
  /\ IF err # NoErr
       THEN pc' = "done" /\ UNCHANGED idx
       ELSE pc' = "loop" /\ idx' = idx + 1

\* executeStep returned err to the loop of Execute (L73-L76).
StepReturns(err) ==
  /\ executionErr' = err
  /\ stepErrs' = Append(stepErrs, err)
  /\ failedAt' = IF err = NoErr THEN failedAt
                 ELSE IF pc = "loop" THEN "resolve" ELSE pc
  /\ IF LoopBreaks(err)
       THEN pc' = "unbound" /\ UNCHANGED idx
       ELSE pc' = "loop" /\ idx' = idx + 1

\* executeStep has not returned: the loop of Execute stays where it is.
InStep(next) ==
  /\ pc' = next
  /\ UNCHANGED <<idx, executionErr, stepErrs, failedAt>>

\* Execute, L72: the range over GetSteps() is exhausted.
LoopEnd ==
  /\ pc = "loop"
  /\ idx > Len(steps)
  /\ pc' = "unbound"
  /\ UNCHANGED <<fixedVars, rmOutputs, sensitive, mask, channel,
                 channelDirs, store, storeDir, idx, outputs, executionErr,
                 result, histVars>>

\* Mutant of SkipNilStep: the nil test does not return and the step goes on
\* to read the channel.
SkipNilStepThenRead ==
  /\ pc = "loop"
  /\ idx <= Len(steps)
  /\ steps[idx].nil
  /\ InStep("read")
  /\ UNCHANGED <<fixedVars, rmOutputs, sensitive, mask, channel,
                 channelDirs, store, storeDir, outputs, result, mixinCalls,
                 inMixin, log, passes, bound>>

\* executeStep, L92-L94: a nil step returns nil at once.
SkipNilStep ==
  /\ pc = "loop"
  /\ idx <= Len(steps)
  /\ steps[idx].nil
  /\ StepReturns(NoErr)
  /\ UNCHANGED <<fixedVars, rmOutputs, sensitive, mask, channel,
                 channelDirs, store, storeDir, outputs, result, mixinCalls,
                 inMixin, log, passes, bound>>

\* executeStep, L95-L106: ResolveStep, then the description line, then
\* SetSensitiveValues(GetSensitiveValues()).  The description is written
\* under the mask set for the previous step.
ResolveStep ==
  /\ pc = "loop"
  /\ idx <= Len(steps)
  /\ ~steps[idx].nil
  /\ \/ /\ StepReturns(Wrap("unable to resolve step", <<"ResolveStep">>))
        /\ UNCHANGED <<sensitive, mask, log>>
     \/ LET resolved == sensitive \cup steps[idx].sensitive IN
        /\ sensitive' = resolved
        /\ log' = IF Len(steps[idx].description) > 0
                    THEN Append(log, [stream |-> "out", what |-> "description",
                                      step |-> idx, mask |-> mask,
                                      sensitive |-> resolved])
                    ELSE log
        /\ mask' = resolved
        /\ InStep("run")
  /\ UNCHANGED <<fixedVars, rmOutputs, channel, channelDirs, store,
                 storeDir, outputs, result, mixinCalls, inMixin, passes,
                 bound>>

\* Mutant of MixinCall: the envelope carries every step of the action.
MixinCallWholeAction(i) ==
  [step |-> i,
   mixin |-> steps[i].mixin,
   Command |-> action,
   Input |-> [action |-> action, Steps |-> [k \in 1..Len(steps) |-> k]],
   Runtime |-> TRUE]

\* executeStep, L108-L117: the ActionInput and CommandOptions of a step.
MixinCall(i) ==
  [step |-> i,
   mixin |-> steps[i].mixin,
   Command |-> action,
   Input |-> [action |-> action, Steps |-> <<i>>],
   Runtime |-> TRUE]

\* Mutant of InvokeMixin: mixins.Run is started and not waited for.
InvokeMixinAsync ==
  /\ pc = "run"
  /\ mixinCalls' = Append(mixinCalls, MixinCall(idx))
  /\ inMixin' = inMixin \cup {idx}
  /\ pc' = "read"
  /\ UNCHANGED <<fixedVars, rmOutputs, sensitive, mask, channel,
                 channelDirs, store, storeDir, idx, outputs, executionErr,
                 result, log, passes, bound, failedAt, stepErrs>>

\* executeStep, L118: mixins.Run is entered.
InvokeMixin ==
  /\ pc = "run"
  /\ mixinCalls' = Append(mixinCalls, MixinCall(idx))
  /\ inMixin' = inMixin \cup {idx}
  /\ pc' = "mixin"
  /\ UNCHANGED <<fixedVars, rmOutputs, sensitive, mask, channel,
                 channelDirs, store, storeDir, idx, outputs, executionErr,
                 result, log, passes, bound, failedAt, stepErrs>>

\* What one mixin may leave in the channel: any files, any contents.
MixinWrites ==
  UNION { { w \in [D -> Vals] : \A n \in D : w[n] \in ValsOf(n) } :
          D \in SUBSET Names }

\* executeStep, L118-L121: the mixin writes its output files and its console
\* output, and mixins.Run returns.
MixinReturns ==
  /\ pc = "mixin"
  /\ \E w \in MixinWrites : channel' = w @@ channel
  /\ log' = Append(log, LogEntry("out", "mixin", idx))
  /\ inMixin' = inMixin \ {idx}
  /\ \/ InStep("read")
     \/ StepReturns(Wrap("mixin execution failed", <<"Run">>))
  /\ UNCHANGED <<fixedVars, rmOutputs, sensitive, mask, channelDirs,
                 store, storeDir, outputs, result, mixinCalls, passes, bound>>

----
\* readMixinOutputs, L226: ReadDir lists files and subdirectories by name.
Listing(files, dirs) ==
  SelectSeq(ChannelOrder \o <<"sub">>,
            LAMBDA n : n \in (DOMAIN files) \cup dirs)

\* Mutant of Without: the Remove of L243 deletes nothing.
WithoutNothing(files, n) == files

\* readMixinOutputs, L243: the channel after Remove of file n.
Without(files, n) == [k \in (DOMAIN files) \ {n} |-> files[k]]

\* readMixinOutputs, L231-L249: the possible results of the loop from entry i
\* on, as [outputs, err, channel].  A failed read or remove returns nil
\* outputs; every file before it is already deleted.
RECURSIVE ReadFrom(_, _, _, _, _)
ReadFrom(ls, i, outs, files, dirs) ==
  IF i > Len(ls)
    THEN { [outputs |-> outs, err |-> NoErr, channel |-> files] }
  ELSE IF ls[i] \in dirs
    THEN ReadFrom(ls, i + 1, outs, files, dirs)
  ELSE { [outputs |-> <<>>, channel |-> files,
          err |-> Wrap("could not read output file", <<"ReadFile">>)],
         [outputs |-> <<>>, channel |-> files, err |-> <<"Remove">>] }
       \cup ReadFrom(ls, i + 1, (ls[i] :> files[ls[i]]) @@ outs,
                     Without(files, ls[i]), dirs)

\* readMixinOutputs, L223-L250.
readMixinOutputs(files, dirs) ==
  { [outputs |-> <<>>, channel |-> files,
     err |-> Wrap("could not list", <<"ReadDir">>)] }
  \cup ReadFrom(Listing(files, dirs), 1, <<>>, files, dirs)

\* Mutant of ReadMixinOutputs: the error test of L124 is missing.
ReadMixinOutputsUnchecked ==
  /\ pc = "read"
  /\ \E o \in readMixinOutputs(channel, channelDirs) :
       /\ channel' = o.channel
       /\ outputs' = o.outputs
       /\ InStep("apply")
  /\ UNCHANGED <<fixedVars, rmOutputs, sensitive, mask, channelDirs,
                 store, storeDir, result, mixinCalls, inMixin, log, passes,
                 bound>>

\* executeStep, L123-L126.
ReadMixinOutputs ==
  /\ pc = "read"
  /\ \E o \in readMixinOutputs(channel, channelDirs) :
       /\ channel' = o.channel
       /\ outputs' = o.outputs
       /\ IF o.err # NoErr
            THEN StepReturns(Wrap("could not read step outputs", o.err))
            ELSE InStep("apply")
  /\ UNCHANGED <<fixedVars, rmOutputs, sensitive, mask, channelDirs,
                 store, storeDir, result, mixinCalls, inMixin, log, passes,
                 bound>>

\* RuntimeManifest.ApplyStepOutputs: the assignments are recorded in the
\* step-output bookkeeping that GetOutputs returns.
RecordStepOutputs(recorded, assignments) == assignments @@ recorded

\* Mutant of ApplyStepOutputs: the error test of L129 is missing.
ApplyStepOutputsUnchecked ==
  /\ pc = "apply"
  /\ rmOutputs' \in {rmOutputs, RecordStepOutputs(rmOutputs, outputs)}
  /\ InStep("bind")
  /\ UNCHANGED <<fixedVars, sensitive, mask, channel, channelDirs, store,
                 storeDir, outputs, result, mixinCalls, inMixin, log, passes,
                 bound>>

\* executeStep, L128-L131.  A failed ApplyStepOutputs may or may not have
\* recorded the assignments.
ApplyStepOutputs ==
  /\ pc = "apply"
  /\ \/ /\ rmOutputs' = RecordStepOutputs(rmOutputs, outputs)
        /\ InStep("bind")
     \/ /\ rmOutputs' \in {rmOutputs, RecordStepOutputs(rmOutputs, outputs)}
        /\ StepReturns(<<"ApplyStepOutputs">>)
  /\ UNCHANGED <<fixedVars, sensitive, mask, channel, channelDirs, store,
                 storeDir, outputs, result, mixinCalls, inMixin, log, passes,
                 bound>>

\* Mutant of shouldApplyOutput: the applyTo list is not consulted.
shouldApplyOutputAlways(output) == TRUE

\* shouldApplyOutput, L210-L221.
shouldApplyOutput(output) ==
  \/ Len(output.ApplyTo) = 0
  \/ \E i \in 1..Len(output.ApplyTo) : action = output.ApplyTo[i]

\* Mutant of BundleWrites: the shouldApplyOutput test of L159 is missing.
BundleWritesAnyScope(outs) == { k \in DOMAIN outs : k \in DOMAIN Outputs }

\* applyStepOutputsToBundle, L153-L167: the keys of outs the loop writes.
BundleWrites(outs) ==
  { k \in DOMAIN outs : k \in DOMAIN Outputs /\ shouldApplyOutput(Outputs[k]) }

\* The files [Outputs[k].Name -> outs[k]] for the keys in W.
Written(outs, W) ==
  [n \in { Outputs[k].Name : k \in W } |->
     outs[CHOOSE k \in W : Outputs[k].Name = n]]

\* applyStepOutputsToBundle, L147-L169 (executeStep L134).  The range over a
\* Go map has no fixed order: a failed write leaves any subset of the other
\* writes done.
ApplyStepOutputsToBundle ==
  /\ pc = "bind"
  /\ \/ /\ StepReturns(Wrap("unable to ensure CNAB outputs directory exists",
                            <<"MkdirAll">>))
        /\ UNCHANGED <<store, storeDir, bound>>
     \/ /\ storeDir' = TRUE
        /\ \E W \in SUBSET BundleWrites(outputs) :
             /\ store' = Written(outputs, W) @@ store
             /\ bound' = Written(outputs, W) @@ bound
             /\ IF W = BundleWrites(outputs)
                  THEN StepReturns(NoErr)
                  ELSE StepReturns(Wrap("unable to write output file",
                                        <<"WriteFile">>))
  /\ outputs' = <<>>
  /\ UNCHANGED <<fixedVars, rmOutputs, sensitive, mask, channel,
                 channelDirs, result, mixinCalls, inMixin, log, passes>>

----
\* applyUnboundBundleOutputs, L188: outputs[outputDef.Name] != "".  A Go map
\* yields "" for a missing key, so a recorded empty value counts as not set.
AlreadySet(outs, name) == name \in DOMAIN outs /\ outs[name] # ""

\* Mutant of UnboundOutputs: the Path == "" test of L193 is missing.
UnboundOutputsAnyPath(outs) ==
  { n \in DOMAIN Outputs :
      /\ ~AlreadySet(outs, Outputs[n].Name)
      /\ shouldApplyOutput(Outputs[n]) }

\* applyUnboundBundleOutputs, L186-L198: the definitions the loop copies.
UnboundOutputs(outs) ==
  { n \in DOMAIN Outputs :
      /\ ~AlreadySet(outs, Outputs[n].Name)
      /\ Outputs[n].Path # ""
      /\ shouldApplyOutput(Outputs[n]) }

\* applyUnboundBundleOutputs, L201: the wrapped error of one failed copy.
CopyError == Wrap("unable to copy output file", <<"CopyFile">>)

\* multierror.Append(list, e): a list with e as one more entry.  The argument
\* is not changed; a nil list yields a new list.
multierrorAppend(list, e) == list \o e

\* applyUnboundBundleOutputs, L184-L205: bigErr after the loop met the failed
\* copies.  L201 assigns the result of multierror.Append to err, not to
\* bigErr, so bigErr goes on to the next iteration as it was.
RECURSIVE bigErrAfter(_, _)
bigErrAfter(failed, bigErr) ==
  IF failed = {} THEN bigErr
  ELSE LET n == CHOOSE k \in failed : TRUE
           err == multierrorAppend(bigErr, CopyError)
       IN bigErrAfter(failed \ {n}, bigErr)

\* multierror.Error.ErrorOrNil, L207: nil for a nil or empty list.
ErrorOrNil(bigErr) == IF Len(bigErr) = 0 THEN NoErr ELSE bigErr

\* Context.CopyFile for each definition in C: dest takes the bytes of Path.
Copied(C) ==
  [n \in { Outputs[k].Name : k \in C } |->
     FileAt(Outputs[CHOOSE k \in C : Outputs[k].Name = n].Path)]

\* Mutant of CopiesDone: a failed copy ends the loop instead of going on.
CopiesDoneUntilFailure(unbound, failed) ==
  IF failed = {} THEN unbound ELSE {}

\* applyUnboundBundleOutputs, L199-L203: a failed copy is recorded and the
\* loop goes on, so every copy is attempted and those that do not fail are made.
CopiesDone(unbound, failed) == unbound \ failed

\* Execute L79-L83 with applyUnboundBundleOutputs, L174-L208.  failed is the
\* set of definitions whose CopyFile fails (unreadable source).
ApplyUnboundBundleOutputs ==
  /\ pc = "unbound"
  /\ \/ LET err == Wrap("unable to ensure CNAB outputs directory exists",
                        <<"MkdirAll">>) IN
        /\ passes' = Append(passes, [err |-> err, ran |-> FALSE,
                                     failed |-> {}, attempted |-> {},
                                     before |-> store])
        /\ log' = Append(log, LogEntry("err", "resolver error", 0))
        /\ UNCHANGED <<store, storeDir>>
     \/ \E failed \in SUBSET UnboundOutputs(rmOutputs) :
          LET err == ErrorOrNil(bigErrAfter(failed, NoErr))
              collecting == IF Cardinality(DOMAIN Outputs) > 0
                              THEN <<LogEntry("out", "collecting", 0)>>
                              ELSE <<>>
              reported == IF err # NoErr
                            THEN <<LogEntry("err", "resolver error", 0)>>
                            ELSE <<>>
          IN
          /\ storeDir' = TRUE
          /\ store' = Copied(CopiesDone(UnboundOutputs(rmOutputs), failed))
                      @@ store
          /\ passes' = Append(passes,
                              [err |-> err, ran |-> TRUE,
                               failed |-> failed,
                               attempted |-> UnboundOutputs(rmOutputs),
                               before |-> store])
          /\ log' = log \o collecting \o reported
  /\ pc' = "report"
  /\ UNCHANGED <<fixedVars, rmOutputs, sensitive, mask, channel,
                 channelDirs, idx, outputs, executionErr, result, mixinCalls,
                 inMixin, bound, failedAt, stepErrs>>

\* Mutant of Outcome: an error of the resolver pass is returned.
OutcomeOverridden(execErr, unboundErr) ==
  IF unboundErr # NoErr THEN unboundErr ELSE execErr

\* Execute, L88: the value returned after the resolver pass.
Outcome(execErr, unboundErr) == execErr

\* Execute, L85-L88.
Report ==
  /\ pc = "report"
  /\ log' = IF executionErr = NoErr
              THEN Append(log, LogEntry("out", "success", 0))
              ELSE log
  /\ result' = Outcome(executionErr, passes[Len(passes)].err)
  /\ pc' = "done"
  /\ UNCHANGED <<fixedVars, rmOutputs, sensitive, mask, channel,
                 channelDirs, store, storeDir, idx, outputs, executionErr,
                 mixinCalls, inMixin, passes, bound, failedAt, stepErrs>>

----
Next ==
  \/ Validate
  \/ Prepare
  \/ LoadImageMappingFiles
  \/ ResolveImages
  \/ MkdirMixinOutputsDir
  \/ LoopEnd
  \/ SkipNilStep
  \/ ResolveStep
  \/ InvokeMixin
  \/ MixinReturns
  \/ ReadMixinOutputs
  \/ ApplyStepOutputs
  \/ ApplyStepOutputsToBundle
  \/ ApplyUnboundBundleOutputs
  \/ Report

Spec == Init /\ [][Next]_vars

\* The runs whose termination is checked: every step list, every pattern of
\* collaborator failures and both channel contents, for one action and for a
\* manifest that declares no output or declares both outputs with a path and
\* no applyTo list (every copy of the resolver pass can then fail or succeed).
FairOutputs ==
  { <<>>,
    [n \in Names |-> OutputDefinition(n, PathOf(n), <<>>)] }

FairInit ==
  /\ Init
  /\ action = "install"
  /\ Outputs \in FairOutputs

\* Execute runs on one goroutine and every call it makes to a collaborator
\* (manifest, mixin invoker, filesystem) returns: a step of Execute that can
\* be taken is taken.
FairSpec == FairInit /\ [][Next]_vars /\ WF_vars(Next)

----
(***************************************************************************)
(* Properties.                                                             *)
(***************************************************************************)

\* The steps whose mixin has been invoked.
CalledSteps == { mixinCalls[i].step : i \in 1..Len(mixinCalls) }

\* The first step whose executeStep returned an error, 0 if there is none.
FirstFailed ==
  IF \E k \in 1..Len(stepErrs) : stepErrs[k] # NoErr
    THEN CHOOSE k \in 1..Len(stepErrs) :
           /\ stepErrs[k] # NoErr
           /\ \A j \in 1..(k - 1) : stepErrs[j] = NoErr
    ELSE 0

\* The action is within the applyTo scope of a definition.
InScope(def) ==
  \/ def.ApplyTo = <<>>
  \/ action \in { def.ApplyTo[i] : i \in 1..Len(def.ApplyTo) }

\* Two directories agree on the file named n.
Same(f, g, n) ==
  /\ n \in DOMAIN f <=> n \in DOMAIN g
  /\ n \in DOMAIN f => f[n] = g[n]

Printed(what) == \E i \in 1..Len(log) : log[i].what = what

\* C1: once executeStep has failed on step k, no later step is executed and no
\* mixin is invoked for steps k+1..N; no resolver pass has run before the
\* failure and exactly one has run once Execute is past it.
C1_StopAtFirstFailure ==
  FirstFailed > 0 =>
    /\ Len(stepErrs) = FirstFailed
    /\ \A k \in CalledSteps : k <= FirstFailed
    /\ pc \in {"unbound", "report", "done"}
    /\ Len(passes) = IF pc = "unbound" THEN 0 ELSE 1

C1_Witness ==
  /\ pc = "done"
  /\ FirstFailed > 0
  /\ FirstFailed < Len(steps)
  /\ ~steps[FirstFailed + 1].nil
  /\ Len(passes) = 1

\* C2 as stated: whenever Execute has returned, after success or after a
\* failure of any stage, exactly one resolver pass has run.
C2_AlwaysOnePass == pc = "done" => Len(passes) = 1

\* C2 amended: when Execute has returned, exactly one resolver pass has run if
\* the step loop was reached, and none if a stage before the loop failed.
C2_OnePassOnceLoopReached ==
  pc = "done" => Len(passes) = IF failedAt \in PreStages THEN 0 ELSE 1

C2_Witness ==
  /\ pc = "done"
  /\ failedAt \in {"resolve", "mixin", "read", "apply", "bind"}
  /\ Len(passes) = 1
  /\ passes[1].ran

\* C3: once the step loop has been reached, Execute returns the error of the
\* first failed step, or nil if no step failed, whatever the resolver pass
\* returned; the success message is printed exactly when that value is nil.
C3_OutcomeIsStepOutcome ==
  /\ Printed("success") => pc = "done"
  /\ (pc = "done" /\ failedAt \notin PreStages) =>
       /\ result = IF FirstFailed = 0 THEN NoErr ELSE stepErrs[FirstFailed]
       /\ Printed("success") <=> result = NoErr

C3_Witness ==
  /\ pc = "done"
  /\ Len(stepErrs) >= 1
  /\ Len(passes) = 1
  /\ passes[1].err # NoErr
  /\ result = NoErr
  /\ Printed("success")

\* The failure entries of the error a resolver pass returned.
Entries(err) ==
  Len(SelectSeq(err, LAMBDA x : x = "unable to copy output file"))

\* C4: a resolver pass in which two or more copies failed returns a non-nil
\* error with one entry for each failed copy.
C4_AllCopyFailuresReported ==
  \A i \in 1..Len(passes) :
    Cardinality(passes[i].failed) >= 2 =>
      /\ passes[i].err # NoErr
      /\ Entries(passes[i].err) = Cardinality(passes[i].failed)

\* C5: the mixin invocations follow the declared step order without repeats;
\* a step's mixin is invoked only after executeStep has returned nil for
\* every earlier step, each of which was nil or had its mixin invoked; at
\* most one invocation is in progress.
C5_InvocationsArePrefix ==
  /\ \A i, j \in 1..Len(mixinCalls) :
       i < j => mixinCalls[i].step < mixinCalls[j].step
  /\ \A k \in CalledSteps :
       /\ ~steps[k].nil
       /\ \A j \in 1..(k - 1) :
            /\ j <= Len(stepErrs)
            /\ stepErrs[j] = NoErr
            /\ steps[j].nil \/ j \in CalledSteps
  /\ Cardinality(inMixin) <= 1

C5_Witness ==
  /\ pc = "mixin"
  /\ Len(mixinCalls) = 2
  /\ inMixin = {2}

\* C6: after Execute returns, a declared output with a path for which a step
\* produced a value that the binder wrote (the empty value included) still
\* holds that value in the store.
C6_ProducedNotOverwritten ==
  pc = "done" =>
    \A n \in DOMAIN bound :
      (n \in DOMAIN Outputs /\ Outputs[n].Path # "") =>
        (n \in DOMAIN store /\ store[n] = bound[n])

\* C7: after a resolver pass, every declared output that no step produced,
\* with a path, in scope and whose copy did not fail is in the store with the
\* bytes of the file at its path; an output with no path or out of scope is
\* left by the pass as it was.
C7_UnboundCopied ==
  (pc \in {"report", "done"} /\ Len(passes) >= 1) =>
    \A n \in DOMAIN Outputs :
      /\ ( /\ passes[1].ran
           /\ n \notin DOMAIN rmOutputs
           /\ Outputs[n].Path # ""
           /\ InScope(Outputs[n])
           /\ n \notin passes[1].failed )
         => (n \in DOMAIN store /\ store[n] = FileAt(Outputs[n].Path))
      /\ (Outputs[n].Path = "" \/ ~InScope(Outputs[n]))
         => Same(store, passes[1].before, n)

C7_Witness ==
  /\ pc = "done"
  /\ DOMAIN Outputs = {"a", "b"}
  /\ rmOutputs = <<>>
  /\ Len(mixinCalls) >= 1
  /\ Outputs["a"].Path # ""
  /\ InScope(Outputs["a"])
  /\ "a" \in DOMAIN store
  /\ store["a"] = FileAt(Outputs["a"].Path)
  /\ ~InScope(Outputs["b"])
  /\ "b" \notin DOMAIN store

\* C8: the binder writes a produced value under a declared name only if the
\* definition's applyTo list is empty or contains the action, and when it
\* returns nil every such value is in the store; a value under an undeclared
\* or out-of-scope name leaves the store as it was.
C8_BinderScope ==
  [][ pc = "bind" =>
        \A k \in DOMAIN outputs :
          /\ (k \notin DOMAIN Outputs \/ ~InScope(Outputs[k]))
             => Same(store', store, k)
          /\ ( /\ k \in DOMAIN Outputs
               /\ InScope(Outputs[k])
               /\ stepErrs'[Len(stepErrs')] = NoErr )
             => (k \in DOMAIN store' /\ store'[k] = outputs[k]) ]_vars

C8_Witness ==
  /\ pc = "loop"
  /\ Len(stepErrs) >= 1
  /\ stepErrs[Len(stepErrs)] = NoErr
  /\ ~steps[Len(stepErrs)].nil
  /\ action = "upgrade"
  /\ DOMAIN Outputs = {"a", "b"}
  /\ Outputs["a"].ApplyTo = <<"install">>
  /\ Outputs["b"].ApplyTo = <<>>
  /\ DOMAIN rmOutputs = {"a", "b"}
  /\ DOMAIN store = {"b"}

\* C9 as stated: whenever executeStep has returned without error, the channel
\* directory holds no regular file.
C9_ChannelEmptyAfterStep ==
  (pc = "loop" /\ Len(stepErrs) >= 1) => DOMAIN channel = {}

\* C9 amended: whenever executeStep has returned without error for a step
\* that is not nil, the channel directory holds no regular file.
C9_ChannelEmptyAfterRunStep ==
  (pc = "loop" /\ Len(stepErrs) >= 1 /\ ~steps[Len(stepErrs)].nil)
    => DOMAIN channel = {}

C9_Witness ==
  /\ pc = "loop"
  /\ Len(stepErrs) >= 1
  /\ ~steps[Len(stepErrs)].nil
  /\ DOMAIN rmOutputs = {"a", "b"}
  /\ channelDirs = {"sub"}
  /\ DOMAIN channel = {}

\* C10: every write to the log made for a step is made under a mask equal to
\* the manifest's sensitive values as they stand after resolving that step.
C10_LogUnderCurrentMask ==
  \A i \in 1..Len(log) :
    log[i].step > 0 => log[i].mask = log[i].sensitive

\* C11: an absent relocation file gives an empty map and no error; a
\* relocation file that cannot be inspected, cannot be read or does not parse
\* makes Execute fail at the image metadata stage, before any step.
C11_OnlyAbsentIsTolerated ==
  /\ reloFile = "absent" =>
       (pc = "resolveImages" /\ failedAt = "" /\ reloMapOf(reloFile) = "empty")
  /\ reloFile \in {"statfails", "unreadable", "invalid"} =>
       (pc = "done" /\ failedAt = "images" /\ result # NoErr
        /\ mixinCalls = <<>>)

\* The error the last executeStep call returned.
LastStepErr(errs) == errs[Len(errs)]

\* No key of outs names a declared output that is in scope for the action.
NothingToBind(outs) ==
  \A k \in DOMAIN outs : k \notin DOMAIN Outputs \/ ~InScope(Outputs[k])

EnsureDirError ==
  <<"unable to ensure CNAB outputs directory exists", "MkdirAll">>

\* C12 as stated: a binder call whose produced names are all undeclared or
\* out of scope returns no error and writes nothing, the store directory not
\* being needed.
C12_NothingToBindNeverFails ==
  [][ (pc = "bind" /\ NothingToBind(outputs)) =>
        (LastStepErr(stepErrs') = NoErr /\ store' = store) ]_vars

\* C12 amended: such a binder call writes nothing; it ensures the store
\* directory first, as every binder call does, and returns no error exactly
\* when the directory could be ensured.
C12_NothingToBindWritesNothing ==
  [][ pc = "bind" =>
        /\ LastStepErr(stepErrs') = NoErr => storeDir'
        /\ NothingToBind(outputs) =>
             /\ store' = store
             /\ LastStepErr(stepErrs') \in {NoErr, EnsureDirError} ]_vars

C12_Witness ==
  /\ pc = "loop"
  /\ Len(stepErrs) = 1
  /\ stepErrs[1] = NoErr
  /\ DOMAIN rmOutputs = {"a", "b"}
  /\ "a" \in DOMAIN Outputs
  /\ "b" \notin DOMAIN Outputs
  /\ ~InScope(Outputs["a"])
  /\ store = <<>>
  /\ storeDir

\* C13: every declared output absent from the store when the resolver pass
\* runs, with a declared path and in scope, has its copy attempted, an output
\* whose store write never happened after a step produced it included.
C13_AbsentFromStoreIsAttempted ==
  \A i \in 1..Len(passes) :
    passes[i].ran =>
      \A k \in DOMAIN Outputs :
        ( /\ Outputs[k].Name \notin DOMAIN passes[i].before
          /\ Outputs[k].Path # ""
          /\ InScope(Outputs[k]) ) => k \in passes[i].attempted

\* C14: within one resolver pass a failed copy never prevents another: after
\* a pass in which some copies failed, every in-scope output with a path that
\* no step produced and whose source is readable is in the store with the
\* bytes of its source, however many other copies failed.
C14_FailedCopyStopsNoOther ==
  (pc \in {"report", "done"} /\ passes # <<>>) =>
    ( (passes[1].ran /\ passes[1].failed # {}) =>
        \A k \in DOMAIN Outputs :
          ( /\ Outputs[k].Name \notin DOMAIN rmOutputs
            /\ Outputs[k].Path # ""
            /\ InScope(Outputs[k])
            /\ k \notin passes[1].failed ) =>
          ( /\ k \in passes[1].attempted
            /\ Outputs[k].Name \in DOMAIN store
            /\ store[Outputs[k].Name] = FileAt(Outputs[k].Path) ) )

C14_Witness ==
  /\ pc = "done"
  /\ passes # <<>>
  /\ passes[1].failed = {"a"}
  /\ passes[1].attempted = {"a", "b"}
  /\ "a" \notin DOMAIN store
  /\ "b" \in DOMAIN store
  /\ store["b"] = FileAt(Outputs["b"].Path)
  /\ rmOutputs = <<>>

\* C15: a failure to list, read or delete the channel files fails the step
\* and nothing read for it is applied: executeStep returns from the read stage
\* with the values dropped, the bookkeeping and the store as they were, and
\* from then on neither ApplyStepOutputs nor the binder runs.  A channel file
\* left behind by the read stage means the step has failed.
C15_ReadFailureAppliesNothing ==
  [][ /\ (pc = "read" /\ DOMAIN channel' # {}) => failedAt' = "read"
      /\ failedAt' = "read" =>
           /\ pc' \in {"unbound", "report", "done"}
           /\ outputs' = <<>>
           /\ rmOutputs' = rmOutputs
           /\ bound' = bound
           /\ pc = "read" =>
                /\ store' = store
                /\ LastStepErr(stepErrs')[1] = "could not read step outputs" ]_vars

C15_Witness ==
  /\ pc = "done"
  /\ failedAt = "read"
  /\ Len(stepErrs) = 1
  /\ result = <<"could not read step outputs", "could not read output file",
                "ReadFile">>
  /\ DOMAIN channel = {"b"}
  /\ rmOutputs = <<>>
  /\ bound = <<>>

\* The stages before the loop in the order Execute runs them (L42-L69).
StageOrder == <<"validate", "prepare", "images", "resolveImages", "mkdir">>

\* What the collaborator of each stage before the loop fails with.
StageCauses ==
  [validate |-> {"Validate"}, prepare |-> {"Prepare"},
   images |-> {"ReadFile", "LoadData", "Unmarshal"},
   resolveImages |-> {"ResolveImages"}, mkdir |-> {"MkdirAll"}]

\* C16: a mixin is invoked only after validation, preparation, image metadata
\* loading, image resolution and channel directory creation all succeeded, in
\* that order; when one of them fails Execute returns its failure with no mixin
\* invoked and nothing written to the store.
C16_NoMixinBeforeStagesSucceed ==
  /\ Len(passed) <= Len(StageOrder)
  /\ passed = SubSeq(StageOrder, 1, Len(passed))
  /\ mixinCalls # <<>> => (passed = StageOrder /\ failedAt \notin PreStages)
  /\ failedAt \in PreStages =>
       /\ pc = "done"
       /\ StageOrder[Len(passed) + 1] = failedAt
       /\ result # NoErr
       /\ result[Len(result)] \in StageCauses[failedAt]
       /\ mixinCalls = <<>>
       /\ store = <<>>
       /\ ~storeDir
       /\ passes = <<>>

C16_Witness ==
  /\ pc = "done"
  /\ failedAt = "mkdir"
  /\ passed = <<"validate", "prepare", "images", "resolveImages">>
  /\ steps # <<>>
  /\ ~steps[1].nil
  /\ mixinCalls = <<>>
  /\ result = <<"could not create outputs directory", "MkdirAll">>

\* C17: within a step the produced outputs go to ApplyStepOutputs before the
\* binder runs, and the binder runs only after ApplyStepOutputs succeeded (the
\* values are then on record); a failed ApplyStepOutputs fails the step, and
\* the binder writes nothing for it then or later.
C17_ApplyBeforeBind ==
  [][ /\ pc' = "bind" =>
           /\ pc = "apply"
           /\ \A k \in DOMAIN outputs :
                k \in DOMAIN rmOutputs' /\ rmOutputs'[k] = outputs[k]
      /\ bound' # bound => pc = "bind"
      /\ failedAt' = "apply" =>
           /\ pc' \in {"unbound", "report", "done"}
           /\ bound' = bound
           /\ pc = "apply" =>
                /\ store' = store
                /\ LastStepErr(stepErrs') # NoErr ]_vars

C17_Witness ==
  /\ pc = "done"
  /\ failedAt = "apply"
  /\ result = <<"ApplyStepOutputs">>
  /\ Len(stepErrs) = 1
  /\ "b" \in DOMAIN outputs
  /\ "b" \in DOMAIN Outputs
  /\ InScope(Outputs["b"])
  /\ "b" \notin DOMAIN bound
  /\ "b" \in DOMAIN rmOutputs

\* C18: no rollback.  Once a step has failed, every file the binder wrote to
\* the store, in an earlier step or in the failing step before the failing
\* write, is still in the store with the content the binder last gave it; this
\* stays so through the resolver pass and after Execute returns.
C18_BoundFilesSurviveFailure ==
  FirstFailed > 0 =>
    \A n \in DOMAIN bound : n \in DOMAIN store /\ store[n] = bound[n]

\* C19: access to the output channel is temporally disjoint.  At most one
\* mixin is in progress; the channel changes either by the mixin of the current
\* step during its own invocation or by the engine's read stage while no mixin
\* is in progress; the read stage of a step comes after the return of that
\* step's mixin and before any later mixin is started.
C19_ChannelAccessDisjoint ==
  [][ /\ Cardinality(inMixin) <= 1
      /\ Cardinality(inMixin') <= 1
      /\ channel' # channel =>
           \/ pc = "mixin" /\ inMixin = {idx} /\ mixinCalls' = mixinCalls
           \/ pc = "read" /\ inMixin = {} /\ inMixin' = {}
                /\ mixinCalls' = mixinCalls
      /\ pc = "read" =>
           /\ inMixin = {}
           /\ mixinCalls # <<>>
           /\ mixinCalls[Len(mixinCalls)].step = idx ]_vars

C19_Witness ==
  /\ pc = "read"
  /\ idx = 2
  /\ Len(mixinCalls) = 2
  /\ inMixin = {}
  /\ DOMAIN channel = {"a", "b"}
  /\ "b" \in DOMAIN rmOutputs

\* The labels Execute and executeStep put on the error of each stage.
StageLabels ==
  [images |-> {"couldn't read runtime bundle.json",
               "couldn't load runtime bundle.json",
               "couldn't read relocation file",
               "couldn't load relocation file"},
   resolveImages |-> {"unable to resolve bundle images"},
   mkdir |-> {"could not create outputs directory"},
   resolve |-> {"unable to resolve step"},
   mixin |-> {"mixin execution failed"},
   read |-> {"could not read step outputs"},
   bind |-> {"unable to ensure CNAB outputs directory exists",
             "unable to write output file"}]

\* The stages whose error Execute returns as the collaborator gave it.
UnlabelledStages == {"validate", "prepare", "apply"}

\* C20 as stated: every error Execute returns from a failed stage carries a
\* label of that stage in front of its cause, for all ten stages.
C20_EveryStageErrorLabelled ==
  (pc = "done" /\ failedAt # "") =>
    /\ Len(result) >= 2
    /\ failedAt \in DOMAIN StageLabels => result[1] \in StageLabels[failedAt]

\* C20 amended: the error Execute returns carries a label of the failed stage
\* for image metadata, image resolution, channel directory creation, step
\* resolution, mixin execution, output read and output bind; the errors of
\* validation, preparation and ApplyStepOutputs are returned as they came,
\* with no label.
C20_StageErrorLabels ==
  (pc = "done" /\ failedAt # "") =>
    /\ result # NoErr
    /\ failedAt \in UnlabelledStages \cup DOMAIN StageLabels
    /\ failedAt \in UnlabelledStages => Len(result) = 1
    /\ failedAt \in DOMAIN StageLabels =>
         /\ Len(result) >= 2
         /\ result[1] \in StageLabels[failedAt]

C20_Witness ==
  /\ pc = "done"
  /\ failedAt = "read"
  /\ result = <<"could not read step outputs", "Remove">>
  /\ Len(stepErrs) = 2

\* C21: every mixin invocation is made by the step being executed, targets
\* the mixin that step names, has the current action as its command, carries
\* an envelope with the current action and that one step only, and has the
\* runtime flag set.
C21_InvocationIsForCurrentStep ==
  [][ mixinCalls' # mixinCalls =>
        /\ pc = "run"
        /\ Len(mixinCalls') = Len(mixinCalls) + 1
        /\ SubSeq(mixinCalls', 1, Len(mixinCalls)) = mixinCalls
        /\ LET call == mixinCalls'[Len(mixinCalls')] IN
             /\ ~steps[idx].nil
             /\ call.mixin = steps[idx].mixin
             /\ call.Command = action
             /\ call.Input.action = action
             /\ call.Input.Steps = <<idx>>
             /\ call.Runtime = TRUE ]_vars

C21_Witness ==
  /\ pc = "mixin"
  /\ action = "upgrade"
  /\ Len(steps) = 2
  /\ Len(mixinCalls) = 2
  /\ mixinCalls[1].mixin = "exec"
  /\ mixinCalls[1].Input.Steps = <<1>>
  /\ mixinCalls[2].mixin = "helm"
  /\ mixinCalls[2].Command = "upgrade"
  /\ mixinCalls[2].Input = [action |-> "upgrade", Steps |-> <<2>>]

\* C22: the store starts empty, and in every reachable state each file in it
\* bears the name of a declared output whose applyTo list is empty or holds
\* the current action: neither the binder nor the resolver creates a file
\* under an undeclared or out-of-scope name.
C22_StoreHoldsDeclaredInScope ==
  \A n \in DOMAIN store :
    \E k \in DOMAIN Outputs :
      /\ Outputs[k].Name = n
      /\ \/ Len(Outputs[k].ApplyTo) = 0
         \/ \E i \in 1..Len(Outputs[k].ApplyTo) : Outputs[k].ApplyTo[i] = action

C22_Witness ==
  /\ pc = "done"
  /\ result = NoErr
  /\ action = "upgrade"
  /\ DOMAIN Outputs = {"a", "b"}
  /\ Outputs["a"].ApplyTo = <<"install">>
  /\ Outputs["a"].Path # ""
  /\ Outputs["b"].ApplyTo = <<>>
  /\ "a" \in DOMAIN rmOutputs
  /\ rmOutputs["a"] = ""
  /\ "b" \notin DOMAIN rmOutputs
  /\ passes[1].attempted = {"b"}
  /\ DOMAIN store = {"b"}

\* C23: a nil entry of the step list is skipped as a success: executeStep
\* returns nil for it with nothing resolved or logged, no mixin invoked, the
\* channel neither read nor cleared and the store untouched, and the loop goes
\* on to the next step.
C23_NilStepSkipped ==
  [][ (pc = "loop" /\ idx <= Len(steps) /\ steps[idx].nil) =>
        /\ stepErrs' = Append(stepErrs, NoErr)
        /\ executionErr' = NoErr
        /\ pc' = "loop"
        /\ idx' = idx + 1
        /\ UNCHANGED <<sensitive, mask, log, mixinCalls, inMixin, channel,
                       channelDirs, outputs, rmOutputs, store, storeDir,
                       bound, failedAt>> ]_vars

C23_Witness ==
  /\ pc = "run"
  /\ idx = 2
  /\ steps[1].nil
  /\ stepErrs = <<NoErr>>
  /\ mixinCalls = <<>>
  /\ DOMAIN channel = {"a"}
  /\ channelDirs = {"sub"}
  /\ store = <<>>
  /\ ~storeDir

\* C24: with every collaborator call returning, Execute terminates for every
\* step list and every pattern of collaborator failures, having invoked at
\* most as many mixins as there are steps; once it has returned, its one
\* outcome (nil or an error) stands and nothing more happens.
C24_Terminates ==
  /\ <>(pc = "done")
  /\ [](Len(mixinCalls) <= Len(steps))
  /\ [](pc = "done" => ~ENABLED Next)
  /\ [][pc = "done" => (pc' = "done" /\ result' = result)]_vars

C24_Witness ==
  /\ pc = "done"
  /\ Len(steps) = MaxSteps
  /\ Len(mixinCalls) = Len(steps)
  /\ failedAt = "bind"
  /\ result = <<"unable to write output file", "WriteFile">>
  /\ Len(passes) = 1
  /\ passes[1].err # NoErr

====
